---- MODULE Spec2Model ----
(***************************************************************************)
(* A model of pms.py: calibrated photometric stereo (photometricStereo),   *)
(* the command-line driver with its data.pkl cache (main), the normal      *)
(* colorizer (colorizeNormals), the raster axis convention shared by both  *)
(* solvers, and the quadratic-constraint / ambiguity-resolution steps of   *)
(* the uncalibrated solver (photometricStereoWithoutLightning).            *)
(*                                                                         *)
(* Arithmetic is exact.  A real vector is kept as a "scaled vector"        *)
(*     [num |-> <<x, y, z>>, den |-> d, rad |-> r]                         *)
(* standing for <<x, y, z>> / (d * sqrt(r)), with integer x, y, z, a       *)
(* nonzero integer d and a positive integer r, so that the division by the *)
(* albedo (a square root) is carried out symbolically and unit length is a *)
(* computed fact (num . num = d^2 * r), not an assumption.                 *)
(***************************************************************************)
EXTENDS Integers, Sequences, FiniteSets, TLC

VARIABLES
    dataPkl,    \* main: content of data.pkl (NoFile when absent)
    outPng,     \* main: content of out.png (NoFile when absent)
    mapPng,     \* main: whether map.png was written
    args,       \* main: the parsed command line of the last run
    exit,       \* main: how the last run ended
    written,    \* main: the files the last run wrote
    psArgs,     \* direct call of photometricStereo: its two arguments
    psRet,      \* direct call of photometricStereo: what it returned or raised
    axisPc,     \* axis convention: position in the round trip
    shape,      \* axis convention: <<w, h>>
    flat,       \* axis convention: the 3 x p solution
    field,      \* axis convention: the raster field
    back,       \* axis convention: the field mapped back to 3 x p
    uPc,        \* photometricStereoWithoutLightning: position in the function
    uImages,    \* photometricStereoWithoutLightning: number of image files
    S,          \* photometricStereoWithoutLightning: pseudo-shape, rows x pixels
    Q,          \* photometricStereoWithoutLightning: constraint matrix
    B_eig,      \* photometricStereoWithoutLightning: eigenvalues of B (line 107)
    B,          \* photometricStereoWithoutLightning: B in its eigenbasis (a diagonal)
    A,          \* photometricStereoWithoutLightning: how A was built
    uRet        \* photometricStereoWithoutLightning: what it returned or raised

mainVars == <<dataPkl, outPng, mapPng, args, exit, written>>
psVars == <<psArgs, psRet>>
axisVars == <<axisPc, shape, flat, field, back>>
uncalVars == <<uPc, uImages, S, Q, B_eig, B, A, uRet>>
vars == <<mainVars, psVars, axisVars, uncalVars>>

----------------------------------------------------------------------------
(* Bounds of the model.                                                    *)

MaxImages == 4      \* longest list of image file names in a direct call
MaxSide == 6        \* largest raster side w, h of the axis-convention round trip
MaxEig == 1         \* eigenvalues of B range over -MaxEig .. MaxEig
MaxPixels == 5      \* most pixel columns of the pseudo-shape S

----------------------------------------------------------------------------
(* Integer and matrix helpers (numpy's dense routines, in exact            *)
(* arithmetic).  A matrix is a sequence of rows.                           *)

Abs(x) == IF x < 0 THEN -x ELSE x

Sign(x) == IF x > 0 THEN 1 ELSE IF x < 0 THEN -1 ELSE 0

RECURSIVE SumSeq(_)
SumSeq(s) == IF Len(s) = 0 THEN 0 ELSE Head(s) + SumSeq(Tail(s))

RECURSIVE Gcd(_, _)
Gcd(x, y) == IF y = 0 THEN Abs(x) ELSE Gcd(y, x % Abs(y))

\* The sequence <<F(1), ..., F(n)>>.
Build(n, F(_)) == SubSeq([i \in 1..n |-> F(i)], 1, n)

RECURSIVE GcdSeq(_)
GcdSeq(s) == IF Len(s) = 0 THEN 0 ELSE Gcd(Head(s), GcdSeq(Tail(s)))

Dot(u, v) == SumSeq(Build(Len(u), LAMBDA i : u[i] * v[i]))

Column(M, j) == Build(Len(M), LAMBDA i : M[i][j])

Transpose(M, ncols) == Build(ncols, LAMBDA j : Column(M, j))

MatVec(M, v) == Build(Len(M), LAMBDA i : Dot(M[i], v))

MatMul(M, K, kcols) == Build(Len(M), LAMBDA i : Build(kcols, LAMBDA j : Dot(M[i], Column(K, j))))

Scale3(c, M) == Build(3, LAMBDA i : Build(3, LAMBDA j : c * M[i][j]))

Add3(M, K) == Build(3, LAMBDA i : Build(3, LAMBDA j : M[i][j] + K[i][j]))

Identity3 == <<<<1, 0, 0>>, <<0, 1, 0>>, <<0, 0, 1>>>>

Det3(M) ==
    M[1][1] * (M[2][2] * M[3][3] - M[2][3] * M[3][2])
  - M[1][2] * (M[2][1] * M[3][3] - M[2][3] * M[3][1])
  + M[1][3] * (M[2][1] * M[3][2] - M[2][2] * M[3][1])

Minors3(M) ==
    (M[1][1] * M[2][2] - M[1][2] * M[2][1])
  + (M[1][1] * M[3][3] - M[1][3] * M[3][1])
  + (M[2][2] * M[3][3] - M[2][3] * M[3][2])

Trace3(M) == M[1][1] + M[2][2] + M[3][3]

\* N^T N, the 3 x 3 Gram matrix of the n x 3 lighting matrix N.
Gram(N) == IF Len(N) = 0 THEN Scale3(0, Identity3) ELSE MatMul(Transpose(N, 3), N, 3)

\* The rank of a positive semidefinite 3 x 3 matrix G from the coefficients
\* of its characteristic polynomial.
RankOfGram(G) ==
    IF Det3(G) /= 0 THEN 3
    ELSE IF Minors3(G) /= 0 THEN 2
    ELSE IF Trace3(G) /= 0 THEN 1 ELSE 0

\* The column rank of N, the rank of N^T N.
Rank(N) == RankOfGram(Gram(N))

\* The rational matrix mat / div in lowest terms.
Reduced(mat, div) ==
    LET g == Gcd(div, GcdSeq(Build(Len(mat), LAMBDA i : GcdSeq(mat[i]))))
    IN  [mat |-> Build(Len(mat), LAMBDA i : Build(Len(mat[i]), LAMBDA j : mat[i][j] \div g)),
         div |-> div \div g]

\* The pseudoinverse of N from Nt = N^T, G = N^T N and the coefficients of
\* det(x I - G) = x^3 + a1 x^2 + a2 x + a3: it is
\* -(1/ak) (G^(k-1) + a1 G^(k-2) + ... + a(k-1) I) N^T for the last nonzero ak,
\* and the zero matrix when there is none.
PinvOfPolynomial(Nt, G, n, a1, a2, a3) ==
    IF a3 /= 0
    THEN Reduced(MatMul(Add3(Add3(MatMul(G, G, 3), Scale3(a1, G)),
                             Scale3(a2, Identity3)), Nt, n), -a3)
    ELSE IF a2 /= 0
    THEN Reduced(MatMul(Add3(G, Scale3(a1, Identity3)), Nt, n), -a2)
    ELSE IF a1 /= 0
    THEN Reduced(Nt, -a1)
    ELSE [mat |-> Build(3, LAMBDA i : Build(n, LAMBDA j : 0)), div |-> 1]

PinvOfGram(N, G) ==
    PinvOfPolynomial(Transpose(N, 3), G, Len(N), -Trace3(G), Minors3(G), -Det3(G))

\* np.linalg.pinv(N): the Moore-Penrose pseudoinverse, as the integer matrix
\* mat (3 x n) over the integer div, in lowest terms.
pinv(N) == PinvOfGram(N, Gram(N))

----------------------------------------------------------------------------
(* The files a run can name.  Every image is a 2 x 2 greyscale grid (all   *)
(* images of one reconstruction share their dimensions); a lighting file   *)
(* maps image names to light directions.                                   *)

ImageNames == {"a.png", "b.png", "c.png", "d.png"}

ImageFiles ==
    [x \in ImageNames |->
        CASE x = "a.png" -> <<<<3, 0>>, <<1, 2>>>>
          [] x = "b.png" -> <<<<4, 0>>, <<2, 2>>>>
          [] x = "c.png" -> <<<<0, 0>>, <<2, 2>>>>
          [] x = "d.png" -> <<<<7, 0>>, <<5, 2>>>>]

LightingNames ==
    {"lights.json", "other.json", "coplanar.json", "opposed.json", "partial.json"}

\* lights.json and other.json hold independent directions; the directions
\* of coplanar.json lie in one plane; those of opposed.json sum to zero, so
\* that a pixel equally bright in all four images has albedo zero;
\* partial.json covers two of the images only.
LightingFiles ==
    [x \in LightingNames |->
        CASE x = "lights.json" ->
                 [y \in ImageNames |->
                     CASE y = "a.png" -> <<1, 0, 0>>
                       [] y = "b.png" -> <<0, 1, 0>>
                       [] y = "c.png" -> <<0, 0, 1>>
                       [] y = "d.png" -> <<1, 1, 1>>]
          [] x = "other.json" ->
                 [y \in ImageNames |->
                     CASE y = "a.png" -> <<1, 0, 1>>
                       [] y = "b.png" -> <<0, 2, 1>>
                       [] y = "c.png" -> <<-1, 1, 1>>
                       [] y = "d.png" -> <<0, 0, 1>>]
          [] x = "coplanar.json" ->
                 [y \in ImageNames |->
                     CASE y = "a.png" -> <<1, 0, 0>>
                       [] y = "b.png" -> <<0, 1, 0>>
                       [] y = "c.png" -> <<1, 1, 0>>
                       [] y = "d.png" -> <<1, -1, 0>>]
          [] x = "opposed.json" ->
                 [y \in ImageNames |->
                     CASE y = "a.png" -> <<1, 0, 0>>
                       [] y = "b.png" -> <<0, 1, 0>>
                       [] y = "c.png" -> <<0, 0, 1>>
                       [] y = "d.png" -> <<-1, -1, -1>>]
          [] x = "partial.json" ->
                 [y \in {"a.png", "b.png"} |->
                     CASE y = "a.png" -> <<1, 0, 0>>
                       [] y = "b.png" -> <<0, 1, 0>>]]

\* A file that does not exist (yet).
NoFile == [present |-> FALSE, content |-> <<>>]

File(content) == [present |-> TRUE, content |-> content]

\* args.lightning when the optional positional argument is not given.
None == "None"

\* Lists of image file names of length at most n.
ImageLists(n) == UNION {[1..k -> ImageNames] : k \in 0..n}

\* The image files the runs of main name, each at most once in a run.
MainImageNames == {"a.png", "b.png", "c.png"}

DistinctLists == {l \in UNION {[1..k -> MainImageNames] : k \in 0..Cardinality(MainImageNames)} :
                     \A i, j \in 1..Len(l) : l[i] = l[j] => i = j}

getImage(filename) == ImageFiles[filename]

getLightning(filename) == LightingFiles[filename]

----------------------------------------------------------------------------
(* Scalars of the solution: num / (den * sqrt(rad)), or a non-finite       *)
(* float (inf, nan) when fin is FALSE.                                     *)

Scalar(n, d, r) == [fin |-> TRUE, num |-> n, den |-> d, rad |-> r]

Zero == Scalar(0, 1, 1)

NonFinite == [fin |-> FALSE, num |-> 0, den |-> 1, rad |-> 1]

\* x.ravel(): the rows of a w x h grid one after the other.
ravel(x) ==
    LET w == Len(x)
        h == Len(x[1])
    IN  Build(w * h, LAMBDA k : x[((k - 1) \div h) + 1][((k - 1) % h) + 1])

\* The reshape with the two raster sides exchanged: entry b * w + a.
ReshapeSidesSwapped(output, w, h) ==
    Build(h, LAMBDA b : Build(w, LAMBDA a : Build(3, LAMBDA c : output[c][(b - 1) * w + a])))

\* output.reshape(3, w, h).swapaxes(0, 2): position [b][a][c] of the field
\* holds entry a * h + b (from 0) of channel c.
Reshape(output, w, h) ==
    Build(h, LAMBDA b : Build(w, LAMBDA a : Build(3, LAMBDA c : output[c][(a - 1) * h + b])))

\* The albedo taken as the norm of column j of I itself, not of N_i.dot(I).
rhoOfIntensities(N_i, I, j) ==
    [sq |-> Dot(Column(I, j), Column(I, j)), div |-> 1]

\* rho[j]: the norm of column j of N_i.dot(I), as sqrt(sq) / div.
rho(N_i, I, j) ==
    LET g == MatVec(N_i.mat, Column(I, j))
    IN  [sq |-> Dot(g, g), div |-> Abs(N_i.div)]

\* Column j of I / rho: a division by zero leaves inf or nan in the column.
DivideByRho(I, r, j) ==
    Build(Len(I), LAMBDA i : IF r.sq /= 0 THEN Scalar(I[i][j] * r.div, 1, r.sq) ELSE NonFinite)

\* The vector x / d over sqrt(rad) in lowest terms, or non-finite entries
\* when the right-hand side b holds inf or nan.
Solution(x, d, b) ==
    LET g == Gcd(d, GcdSeq(x))
    IN  IF \A i \in 1..Len(b) : b[i].fin
        THEN Build(3, LAMBDA c : Scalar(x[c] \div g, d \div g, b[1].rad))
        ELSE Build(3, LAMBDA c : NonFinite)

MinimumNormSolution(P, b) ==
    Solution(MatVec(P.mat, Build(Len(b), LAMBDA i : b[i].num)), P.div * b[1].den, b)

\* np.linalg.lstsq(N, b)[0] for one column b: the least-squares solution of
\* minimum norm, pinv(N) b.
lstsq(N, b) == MinimumNormSolution(pinv(N), b)

\* The columns lstsq is given and output receives: those with rho != 0.
ValidColumn(r) == r.sq /= 0

\* Lines 42-45, per pixel column j: the solution of the columns with
\* rho != 0, the zeros of line 39 elsewhere.
Normals(N, N_i, I) ==
    Build(Len(I[1]), LAMBDA j :
        IF ValidColumn(rho(N_i, I, j))
        THEN lstsq(N, DivideByRho(I, rho(N_i, I, j), j))
        ELSE <<Zero, Zero, Zero>>)

\* output: 3 rows (channels) of p entries.
Output(normals) == Build(3, LAMBDA c : Build(Len(normals), LAMBDA j : normals[j][c]))

\* Lines 41-47 for the lighting matrix N and the intensity matrix I of
\* images of shape (w, h).
Solve(N, I, w, h) == Reshape(Output(Normals(N, pinv(N), I)), w, h)

photometricStereo(lightning_filename, images_filenames) ==
    IF Len(images_filenames) = 0
    THEN [exc |-> "ValueError", output |-> <<>>]
    ELSE IF \E i \in 1..Len(images_filenames) :
                images_filenames[i] \notin DOMAIN getLightning(lightning_filename)
    THEN [exc |-> "KeyError", output |-> <<>>]
    ELSE [exc |-> "none",
          output |->
              Solve(Build(Len(images_filenames), LAMBDA i :
                        getLightning(lightning_filename)[images_filenames[i]]),
                    Build(Len(images_filenames), LAMBDA i :
                        ravel(getImage(images_filenames[i]))),
                    Len(getImage(images_filenames[1])),
                    Len(getImage(images_filenames[1])[1]))]

----------------------------------------------------------------------------
(* colorizeNormals.  A colour is (num[c] / sqrt(rad) + 1) / 2 per channel, *)
(* or NaN.  The three entries of one position of a normal field share den  *)
(* and rad: the solver divides a whole pixel column by one albedo.         *)

NaNColor == [nan |-> TRUE, num |-> <<0, 0, 0>>, rad |-> 1]

colorizeVector(v) ==
    LET sn == Sign(v[1].den)
        g == Gcd(v[1].num, Gcd(v[2].num, v[3].num))
        dir == <<(sn * v[1].num) \div g, (sn * v[2].num) \div g, (sn * v[3].num) \div g>>
    IN  IF (\E c \in 1..3 : ~v[c].fin) \/ (\A c \in 1..3 : v[c].num = 0)
        THEN NaNColor
        ELSE [nan |-> FALSE, num |-> dir, rad |-> Dot(dir, dir)]

colorizeNormals(normals) ==
    Build(Len(normals), LAMBDA b : Build(Len(normals[b]), LAMBDA a : colorizeVector(normals[b][a])))

----------------------------------------------------------------------------
(* Initial values of each group of variables while its program is not run. *)

MainIdle ==
    /\ dataPkl = NoFile
    /\ outPng = NoFile
    /\ mapPng = FALSE
    /\ args = [lightning |-> None, image |-> <<>>, generate_map |-> FALSE]
    /\ exit = "not run"
    /\ written = {}

PsIdle ==
    /\ psArgs = <<None, <<>>>>
    /\ psRet = [exc |-> "not called", output |-> <<>>]

AxisIdle ==
    /\ axisPc = "not run"
    /\ shape = <<0, 0>>
    /\ flat = <<>>
    /\ field = <<>>
    /\ back = <<>>

UncalIdle ==
    /\ uPc = "not called"
    /\ uImages = 0
    /\ S = <<>>
    /\ Q = <<>>
    /\ B_eig = <<>>
    /\ B = <<>>
    /\ A = "none"
    /\ uRet = "none"

----------------------------------------------------------------------------
(* main: one run of the program, from argument parsing to its return or    *)
(* uncaught exception.  data.pkl, out.png and map.png persist between runs.*)

\* Lines 199-204, given what photometricStereo returned or raised: the
\* exception leaves main before anything is written.
Reconstruct(ret) ==
    IF ret.exc /= "none"
    THEN /\ exit' = ret.exc
         /\ written' = {}
         /\ UNCHANGED <<dataPkl, outPng, mapPng>>
    ELSE /\ dataPkl' = File(ret.output)
         /\ outPng' = File(colorizeNormals(ret.output))
         /\ exit' = "ok"
         /\ written' = {"data.pkl", "out.png"}
         /\ UNCHANGED mapPng

Main(lightning, image, generate_map) ==
    /\ args' = [lightning |-> lightning, image |-> image, generate_map |-> generate_map]
    /\ IF generate_map
       THEN /\ mapPng' = TRUE
            /\ exit' = "map"
            /\ written' = {"map.png"}
            /\ UNCHANGED <<dataPkl, outPng>>
       ELSE IF ~(lightning /= None /\ Len(image) >= 3)
       THEN /\ exit' = "usage"
            /\ written' = {}
            /\ UNCHANGED <<dataPkl, outPng, mapPng>>
       ELSE IF dataPkl.present
       THEN /\ outPng' = File(colorizeNormals(dataPkl.content))
            /\ exit' = "ok"
            /\ written' = {"out.png"}
            /\ UNCHANGED <<dataPkl, mapPng>>
       ELSE Reconstruct(photometricStereo(lightning, image))
    /\ UNCHANGED <<psVars, axisVars, uncalVars>>

Init == MainIdle /\ PsIdle /\ AxisIdle /\ UncalIdle

\* The command lines of the runs: any lighting file or none, any list of
\* distinct image files, with or without --generate-map.
CommandLines ==
    {[lightning |-> l, image |-> i, generate_map |-> m] :
        l \in LightingNames \cup {None}, i \in DistinctLists, m \in BOOLEAN}

Next == \E argv \in CommandLines : Main(argv.lightning, argv.image, argv.generate_map)

Spec == Init /\ [][Next]_vars

----------------------------------------------------------------------------
(* A direct call of photometricStereo with a lighting file and a list of   *)
(* image files.                                                            *)

PsInit ==
    /\ psArgs \in LightingNames \X ImageLists(MaxImages)
    /\ psRet = [exc |-> "not called", output |-> <<>>]
    /\ MainIdle /\ AxisIdle /\ UncalIdle

CallPhotometricStereo ==
    /\ psRet.exc = "not called"
    /\ psRet' = photometricStereo(psArgs[1], psArgs[2])
    /\ UNCHANGED <<psArgs, mainVars, axisVars, uncalVars>>

PsNext == CallPhotometricStereo

SpecPS == PsInit /\ [][PsNext]_vars

----------------------------------------------------------------------------
(* The axis convention on its own: a 3-channel solution over p = w h       *)
(* pixels is mapped to the raster field as both solvers do (lines 46-47,   *)
(* 130-131) and mapped back to p-length with the flattening the solvers    *)
(* apply to every image (x.ravel(), lines 38, 60).                         *)

\* A solution whose entries are pairwise distinct: entry i of channel c is
\* labelled (c - 1) p + i.
Labelled(p) == Build(3, LAMBDA c : Build(p, LAMBDA i : (c - 1) * p + i))

\* field.swapaxes(0, 2): channel c of the field as a w x h grid.
Channel(fld, c, w, h) == Build(w, LAMBDA a : Build(h, LAMBDA b : fld[b][a][c]))

\* The field mapped back to 3 x p: each channel grid flattened by ravel.
Unreshape(fld, w, h) == Build(3, LAMBDA c : ravel(Channel(fld, c, w, h)))

AxisInit ==
    /\ axisPc = "solved"
    /\ shape \in (1..MaxSide) \X (1..MaxSide)
    /\ flat = Labelled(shape[1] * shape[2])
    /\ field = <<>>
    /\ back = <<>>
    /\ MainIdle /\ PsIdle /\ UncalIdle

ToField ==
    /\ axisPc = "solved"
    /\ field' = Reshape(flat, shape[1], shape[2])
    /\ axisPc' = "field"
    /\ UNCHANGED <<shape, flat, back, mainVars, psVars, uncalVars>>

ToFlat ==
    /\ axisPc = "field"
    /\ back' = Unreshape(field, shape[1], shape[2])
    /\ axisPc' = "flat"
    /\ UNCHANGED <<shape, flat, field, mainVars, psVars, uncalVars>>

AxisNext == ToField \/ ToFlat

SpecAxis == AxisInit /\ [][AxisNext]_vars

----------------------------------------------------------------------------
(* photometricStereoWithoutLightning.  The dense factorizations are        *)
(* library routines whose results are inputs of the steps modelled here:   *)
(* the pseudo-shape S as it stands after line 84 (integer entries, one     *)
(* column per pixel, one row per retained singular component) and the      *)
(* eigenvalues of the symmetric matrix B unpacked at line 101, with B kept *)
(* in its eigenbasis.  The numeric content of A, structure and normals is  *)
(* not modelled: A records which branch built it.  The function runs up to *)
(* the pdb.set_trace() of line 121, where it waits for the debugger's      *)
(* console; the rest runs when the user continues.                         *)

\* The pixel columns q = (q1, q2, q3, q4) the pseudo-shape is drawn from.
ShapeColumns == {<<1, 2, 3, 5>>, <<2, 0, -1, 1>>}

\* Pseudo-shapes of `rows` rows and `pixels` columns.
PseudoShapes(rows, pixels) ==
    {Build(rows, LAMBDA i : Build(pixels, LAMBDA j : cols[j][i])) :
        cols \in [1..pixels -> ShapeColumns]}

Q1 == <<0, 1, 2, 3, 0, 0, 0, 1, 1, 2>>

Q2 == <<0, 1, 2, 3, 1, 2, 3, 2, 3, 3>>

\* Lines 90-94: Q = Q1 * Q2 (10 x n), Q[:,4:] *= 2, Q = transpose(Q).
ConstructQ(s) ==
    LET pixels == Len(s[1])
        product == Build(10, LAMBDA t : Build(pixels, LAMBDA j :
                       s[Q1[t] + 1][j] * s[Q2[t] + 1][j]))
        doubled == Build(10, LAMBDA t : Build(pixels, LAMBDA j :
                       IF j - 1 >= 4 THEN 2 * product[t][j] ELSE product[t][j]))
    IN  Build(pixels, LAMBDA j : Build(10, LAMBDA t : doubled[t][j]))

\* Lines 108-110.
nb_eig_sn_positive(eig) == Cardinality({i \in 1..4 : Sign(eig[i]) > 0})

nb_eig_sn_negative(eig) == Cardinality({i \in 1..4 : Sign(eig[i]) < 0})

\* Line 111: the eigendecomposition branch is taken.
EigBranch(eig) == 1 \in {nb_eig_sn_positive(eig), nb_eig_sn_negative(eig)}

\* Lines 112-113: B = -B when exactly one eigenvalue is positive.
FlipB(eig) ==
    IF nb_eig_sn_positive(eig) = 1 THEN Build(4, LAMBDA i : -eig[i]) ELSE eig

UncalInit ==
    /\ uPc = "start"
    /\ uImages \in 0..MaxImages
    /\ \E pixels \in 1..MaxPixels :
          /\ pixels >= uImages
          /\ S \in IF uImages = 0 THEN {<<>>}
                   ELSE PseudoShapes(IF uImages < 4 THEN uImages ELSE 4, pixels)
    /\ B_eig \in IF uImages < 4 THEN {<<>>} ELSE [1..4 -> (-MaxEig)..MaxEig]
    /\ Q = <<>>
    /\ B = <<>>
    /\ A = "none"
    /\ uRet = "none"
    /\ MainIdle /\ PsIdle /\ AxisIdle

\* Lines 54-121: from the call to the breakpoint, or to the exception that
\* ends the call (images[0] of an empty list at line 56, row 3 of a
\* pseudo-shape of fewer than 4 rows at line 90).
RunToBreakpoint ==
    /\ uPc = "start"
    /\ IF uImages < 4
       THEN /\ uPc' = "raised"
            /\ uRet' = "IndexError"
            /\ UNCHANGED <<Q, B, A>>
       ELSE /\ Q' = ConstructQ(S)
            /\ B' = IF EigBranch(B_eig) THEN FlipB(B_eig) ELSE B_eig
            /\ A' = IF EigBranch(B_eig) THEN "sqrt(Lambda) W" ELSE "UB VB"
            /\ uPc' = "pdb"
            /\ UNCHANGED uRet
    /\ UNCHANGED <<uImages, S, B_eig, mainVars, psVars, axisVars>>

\* Lines 125-132, once the user continues from the debugger prompt.
DebuggerContinue ==
    /\ uPc = "pdb"
    /\ uPc' = "returned"
    /\ uRet' = "normals"
    /\ UNCHANGED <<uImages, S, Q, B_eig, B, A, mainVars, psVars, axisVars>>

\* The user quits the debugger: pdb raises BdbQuit out of the function.
DebuggerQuit ==
    /\ uPc = "pdb"
    /\ uPc' = "raised"
    /\ uRet' = "BdbQuit"
    /\ UNCHANGED <<uImages, S, Q, B_eig, B, A, mainVars, psVars, axisVars>>

UncalNext == RunToBreakpoint \/ DebuggerContinue \/ DebuggerQuit

SpecUncal == UncalInit /\ [][UncalNext]_vars

----------------------------------------------------------------------------
(* Vocabulary of the properties of the calibrated path.                    *)

\* The inputs of the direct call, as the solver builds them.
PsCalled == psRet.exc /= "not called"

PsHasMatrices ==
    /\ Len(psArgs[2]) >= 1
    /\ \A i \in 1..Len(psArgs[2]) : psArgs[2][i] \in DOMAIN getLightning(psArgs[1])

PsN == Build(Len(psArgs[2]), LAMBDA i : getLightning(psArgs[1])[psArgs[2][i]])

PsI == Build(Len(psArgs[2]), LAMBDA i : ravel(getImage(psArgs[2][i])))

\* The albedo of pixel j is zero: column j of pinv(N) I is the zero vector.
AlbedoIsZero(N, I, j) == \A c \in 1..3 : Dot(pinv(N).mat[c], Column(I, j)) = 0

\* A position of a normal field holds a finite vector of Euclidean length 1.
IsUnitVector(v) ==
    /\ \A c \in 1..3 : v[c].fin /\ v[c].den = v[1].den /\ v[c].rad = v[1].rad
    /\ v[1].num * v[1].num + v[2].num * v[2].num + v[3].num * v[3].num
           = v[1].den * v[1].den * v[1].rad

\* A position of a normal field holds exactly the zero vector.
IsZeroVector(v) == \A c \in 1..3 : v[c].fin /\ v[c].num = 0

\* The colour (0, 0, 0).
ZeroColor == [nan |-> FALSE, num |-> <<-1, -1, -1>>, rad |-> 1]

\* The last run of main was a reconstruction run: a lighting file and 3 or
\* more images, without --generate-map.
ReconstructionRun ==
    /\ exit /= "not run"
    /\ ~args.generate_map
    /\ args.lightning /= None
    /\ Len(args.image) >= 3

OwnSolve == photometricStereo(args.lightning, args.image)

----------------------------------------------------------------------------
(* C1.  The cache is keyed by the run's inputs: the colour field a         *)
(* reconstruction run writes to out.png is the colorization of the normal  *)
(* field computed from that run's own lighting and images, also when a     *)
(* data.pkl left by an earlier run with other inputs is present.           *)
C1_OutputFromOwnInputs ==
    (ReconstructionRun /\ "out.png" \in written /\ OwnSolve.exc = "none")
        => outPng.content = colorizeNormals(OwnSolve.output)

(* C2.  A failed solve is never masked by a cached value: a reconstruction *)
(* run whose solve on its own inputs fails ends with that failure and      *)
(* writes neither out.png nor data.pkl.                                    *)
C2_FailedSolveSurfaces ==
    (ReconstructionRun /\ OwnSolve.exc /= "none")
        => (exit = OwnSolve.exc /\ written = {})

(* C3.  photometricStereo called with fewer than 3 images raises           *)
(* DegenerateLightingError and returns no field.                           *)
C3_TooFewImagesRaise ==
    (PsCalled /\ Len(psArgs[2]) < 3)
        => (psRet.exc = "DegenerateLightingError" /\ psRet.output = <<>>)

(* C4.  photometricStereo called with 3 or more images whose lighting      *)
(* matrix N does not have column rank 3 raises DegenerateLightingError and *)
(* returns no field.                                                       *)
C4_RankDeficientRaises ==
    (PsCalled /\ Len(psArgs[2]) >= 3 /\ PsHasMatrices /\ Rank(PsN) < 3)
        => (psRet.exc = "DegenerateLightingError" /\ psRet.output = <<>>)

(* C5.  For a lighting matrix of rank 3 the returned field holds, at the   *)
(* position of every pixel, a unit-length vector if the pixel's albedo is  *)
(* nonzero and exactly the zero vector if it is zero; no non-finite value  *)
(* reaches the field.                                                      *)
C5_UnitOrZeroNormals ==
    (PsCalled /\ PsHasMatrices /\ Rank(PsN) = 3)
        => /\ psRet.exc = "none"
           /\ LET w == Len(getImage(psArgs[2][1]))
                  h == Len(getImage(psArgs[2][1])[1])
              IN  /\ Len(psRet.output) = h
                  /\ \A b \in 1..h :
                        /\ Len(psRet.output[b]) = w
                        /\ \A a \in 1..w :
                              IF AlbedoIsZero(PsN, PsI, (a - 1) * h + b)
                              THEN IsZeroVector(psRet.output[b][a])
                              ELSE IsUnitVector(psRet.output[b][a])

\* A rank-3 call with 4 images whose field holds a unit vector of irrational
\* albedo and the zero vector of a pixel of zero albedo that is not black.
C5_Witness ==
    /\ PsCalled /\ PsHasMatrices /\ Rank(PsN) = 3 /\ Len(psArgs[2]) = 4
    /\ psRet.exc = "none"
    /\ \E b \in 1..Len(psRet.output) : \E a \in 1..Len(psRet.output[b]) :
          LET j == (a - 1) * Len(psRet.output) + b
          IN  /\ IsZeroVector(psRet.output[b][a])
              /\ AlbedoIsZero(PsN, PsI, j)
              /\ \E i \in 1..4 : PsI[i][j] /= 0
    /\ \E b \in 1..Len(psRet.output) : \E a \in 1..Len(psRet.output[b]) :
          /\ IsUnitVector(psRet.output[b][a])
          /\ psRet.output[b][a][1].rad > 1

(* C6.  colorizeNormals maps a zero vector to the zero vector, not to NaN: *)
(* every position of the field main colorizes that holds the zero vector   *)
(* is the zero colour in out.png.                                          *)
C6_ZeroColorizesToZero ==
    (outPng.present /\ dataPkl.present)
        => \A b \in 1..Len(dataPkl.content) : \A a \in 1..Len(dataPkl.content[b]) :
              IsZeroVector(dataPkl.content[b][a])
                  => (~outPng.content[b][a].nan /\ outPng.content[b][a] = ZeroColor)

----------------------------------------------------------------------------
(* Properties of the axis convention and of the uncalibrated path.         *)

\* The positions of a field of h rows, w columns and 3 channels.
Positions(w, h) == (1..h) \X (1..w) \X (1..3)

(* C7.  Mapping the 3-channel p-length solution to the raster field and    *)
(* back returns the original solution, and every (channel, pixel) entry    *)
(* lands on exactly one position of the field, for every w, h.             *)
C7_LosslessRoundTrip ==
    LET w == shape[1]
        h == shape[2]
    IN  /\ axisPc \in {"field", "flat"} =>
              /\ Len(field) = h
              /\ \A b \in 1..h : Len(field[b]) = w
              /\ \A c \in 1..3 : \A i \in 1..(w * h) :
                    Cardinality({pos \in Positions(w, h) :
                        field[pos[1]][pos[2]][pos[3]] = flat[c][i]}) = 1
        /\ axisPc = "flat" => back = flat

\* A round trip over a non-square raster, where the swap of axes moves
\* entries: pixel 2 of the solution sits in row 2 of the field.
C7_Witness ==
    /\ axisPc = "flat"
    /\ shape[1] > 1 /\ shape[2] > 1 /\ shape[1] /= shape[2]
    /\ field[2][1][1] = flat[1][2]
    /\ back = flat

\* The ambiguity-resolution step has run.
AmbiguityResolved == A /= "none"

\* The signature of B is one eigenvalue of one sign and three of the other.
OneVsThree(eig) ==
    \/ nb_eig_sn_positive(eig) = 1 /\ nb_eig_sn_negative(eig) = 3
    \/ nb_eig_sn_positive(eig) = 3 /\ nb_eig_sn_negative(eig) = 1

(* C8.  The eigendecomposition branch is taken if and only if the          *)
(* eigenvalue signs of B are one of one sign and three of the other, and   *)
(* then B is flipped so that the singleton eigenvalue is negative; for     *)
(* every other sign pattern the SVD fallback A = UB VB is taken.           *)
C8_EigBranchIffOneVsThree ==
    AmbiguityResolved =>
        /\ (A = "sqrt(Lambda) W") <=> OneVsThree(B_eig)
        /\ OneVsThree(B_eig) =>
              (nb_eig_sn_negative(B) = 1 /\ nb_eig_sn_positive(B) = 3)
        /\ ~OneVsThree(B_eig) => (A = "UB VB" /\ B = B_eig)

(* C9.  Row j of Q is (q1^2, q2^2, q3^2, q4^2, 2 q1 q2, 2 q1 q3, 2 q1 q4,  *)
(* 2 q2 q3, 2 q2 q4, 2 q3 q4) for the column q of S of pixel j, whatever   *)
(* the pixel index j.                                                      *)
C9_QuadraticRows ==
    Q /= <<>> =>
        /\ Len(Q) = Len(S[1])
        /\ \A j \in 1..Len(Q) :
              LET q1 == S[1][j]
                  q2 == S[2][j]
                  q3 == S[3][j]
                  q4 == S[4][j]
              IN  Q[j] = <<q1 * q1, q2 * q2, q3 * q3, q4 * q4,
                           2 * q1 * q2, 2 * q1 * q3, 2 * q1 * q4,
                           2 * q2 * q3, 2 * q2 * q4, 2 * q3 * q4>>

(* C10.  photometricStereoWithoutLightning goes from computing A to        *)
(* computing the structure A S without an interactive suspension: the      *)
(* function is never parked at a debugger prompt.                          *)
C10_NoInteractiveSuspension == uPc /= "pdb"

====
